---- MODULE Spec2Model ----
(***************************************************************************)
(* gravitify (src/src/lib.ts, the current version of the library, lines    *)
(* 235-608): the walk over the DOM that selects the entities, the          *)
(* asynchronous creation of one physics body per entity, the               *)
(* updateTexture listener that re-captures an entity when its element      *)
(* changes, the simulation step of the engine, and the mouse handlers      *)
(* that turn a press-release gesture into a click on the source element.   *)
(*                                                                         *)
(* The program is single-threaded: every action below is one run of        *)
(* JavaScript code between two suspension points (an await or the return   *)
(* to the event loop).                                                     *)
(***************************************************************************)
EXTENDS Integers, Sequences, FiniteSets, Bags, TLC

(***************************************************************************)
(* Bounds of the model.                                                    *)
(***************************************************************************)
\* elements below the root element
MaxNodes == 3
\* content versions an element goes through (1 is the content at the start)
MaxVersion == 2
\* updateTexture calls awaiting their capture at one time
MaxInFlight == 2
\* mousemove events counted by the model
MaxMoves == 6
\* calls of gravitify on the same root element
MaxRuns == 2
\* width and height of the root element
MaxSide == 3
\* left and top of the root element in the viewport
MaxOffset == 1

(***************************************************************************)
(* Program constants.                                                      *)
(***************************************************************************)
\* `if (mouseMoveCount < 5) return;`
ClickMoveThreshold == 5
\* the four walls are 1 unit thick
WallThickness == 1
\* `render.options.width || 800`, `render.options.height || 600`
DefaultWidth == 800
DefaultHeight == 600

Root == 0
Nodes == 1..MaxNodes
Elements == 0..MaxNodes
\* mouseConstraint.body === null, mouseBody === null
Null == 0
\* an argument that was not passed, a property that is not there
Undefined == -1
\* bodies the model can hold: the walls, one per element, and room for the
\* bodies a faulty variant would add
MaxBodies == MaxNodes + 6

VARIABLES
    \* the document and the arguments of gravitify
    parent,             \* parent[n]: the parent element of element n
    kind,               \* kind[n]: tag and id of element n
    rect,               \* rect[n]: getBoundingClientRect() / clientWidth of n
    content,            \* content[n]: version of what element n shows
    predicate,          \* predicate[n]: what isSpecialEntity(n) resolves to
    throws,             \* the elements isSpecialEntity throws or rejects for
    entitySelectors,    \* the entitySelectors argument
    rootRect,           \* rootElement.getBoundingClientRect()
    physicsOptions,     \* the physicsOptions argument
    engineDefinition,   \* the options Engine.create was called with
    \* the scene build
    pc,                 \* where gravitify is: "walking", "running"
    stack,              \* the active addChildren calls, innermost last
    shrunk,             \* elements carrying SHRINK_CLASS_IDENTIFIER
    visited,            \* the elements addChildren was called for in this build
    entityCalls,        \* entityCalls[n]: addEntity calls for n in this build
    runs,               \* calls of gravitify so far
    firstEntities,      \* the elements the previous build called addEntity for
    asked,              \* asked[n]: isSpecialEntity calls for n in this build
    \* the entities
    creating,           \* createBody calls awaiting image(sourceElement)
    bodies,             \* bodies[h]: the body with handle h, ever created
    world,              \* handles of the bodies in engine.world
    resyncs,            \* updateTexture calls awaiting image(sourceElement)
    lastResync,         \* history: what the updateTexture that resumed last
                        \* captured, found and did
    \* the mouse handlers
    mousedownNotDrag,
    mouseMoveCount,
    mouseBody,
    constraintDefinition,   \* the constraint MouseConstraint.create was called with
    gesture,            \* history: the events since the last mousedown
    forwarded           \* what the mouse handler that ran last did

docVars ==
    <<parent, kind, rect, content, predicate, throws, entitySelectors, rootRect,
      physicsOptions, engineDefinition>>
buildVars == <<pc, stack, shrunk, visited, entityCalls, runs, firstEntities, asked>>
entityVars == <<creating, bodies, world, resyncs, lastResync>>
mouseVars ==
    <<mousedownNotDrag, mouseMoveCount, mouseBody, constraintDefinition, gesture,
      forwarded>>
vars == <<docVars, buildVars, entityVars, mouseVars>>

(***************************************************************************)
(* JavaScript values and emitUndefinedProps.                               *)
(***************************************************************************)
\* a value that is not a plain object: undefined, null, a number, a boolean
Leaf(v) == [leaf |-> v]

\* a plain object: obj maps its keys to values
Map(obj) == [map |-> obj]

\* the values a caller gives to a field of PhysicsOptions
Values == {"undefined", "null", "0", "false", "1", "true"}

\* `v && typeof v === 'object' && toString.call(v) === '[object Object]'`
isSimpleMap(v) == "map" \in DOMAIN v

\* `else if (v !== undefined && v !== null)`
KeepsLeaf(v) == v.leaf \notin {"undefined", "null"}

\* emitUndefinedProps(obj): the keys of obj without those whose value is
\* undefined or null and without the plain objects that come out empty
RECURSIVE emitUndefinedProps(_)
emitUndefinedProps(obj) ==
    LET inner(k) == emitUndefinedProps(obj[k].map)
        kept == {k \in DOMAIN obj :
                    IF isSimpleMap(obj[k]) THEN DOMAIN inner(k) # {}
                    ELSE KeepsLeaf(obj[k])}
    IN  [k \in kept |-> IF isSimpleMap(obj[k]) THEN Map(inner(k)) ELSE obj[k]]

\* `v?.key`
Chain(v, key) ==
    IF isSimpleMap(v) /\ key \in DOMAIN v.map THEN v.map[key]
    ELSE Leaf("undefined")

\* whether a value counts as true in a condition
Truthy(v) == isSimpleMap(v) \/ v.leaf \notin {"undefined", "null", "0", "false"}

\* the argument of Engine.create in gravitify
EngineDefinition(options) ==
    emitUndefinedProps(
        [k \in {"positionIterations", "velocityIterations",
                "constraintIterations", "gravity"} |->
            IF k = "gravity"
            THEN Map([g \in {"y", "x"} |-> Chain(Chain(options, "gravity"), g)])
            ELSE Chain(Chain(options, "engine"), k)])

\* the material properties in the options of Bodies.rectangle in createBody
BodyDefinition(options) ==
    emitUndefinedProps(
        [k \in {"restitution", "friction", "density", "frictionAir", "isStatic"}
            |-> Chain(Chain(options, "body"), k)])

\* the constraint of MouseConstraint.create in
\* addMouseEvents(engine, render, physicsOptions)
ConstraintDefinition(options) ==
    Map(emitUndefinedProps(
        [k \in {"stiffness", "damping", "render"} |->
            IF k = "render"
            THEN Map([v \in {"visible"} |-> Leaf("false")])
            ELSE Chain(Chain(options, "mouse"), k)]))

(***************************************************************************)
(* The document.                                                           *)
(***************************************************************************)
Range(s) == {s[i] : i \in 1..Len(s)}

Count(s, x) == Cardinality({i \in 1..Len(s) : s[i] = x})

\* tag and id of an element
Kinds == {"div", "button", "button#x"}

\* the selectors a caller passes
SelectorNames == {"button", "#x"}

\* whether element n is below element e
RECURSIVE IsDescendant(_, _)
IsDescendant(n, e) ==
    IF n = Root THEN FALSE
    ELSE parent[n] = e \/ IsDescendant(parent[n], e)

\* variant: element.querySelectorAll("*"), every element below e
ChildrenAllDescendants(e) ==
    SelectSeq([i \in 1..MaxNodes |-> i], LAMBDA n : IsDescendant(n, e))

\* element.children: the child elements in document order
Children(e) == SelectSeq([i \in 1..MaxNodes |-> i], LAMBDA n : parent[n] = e)

\* whether element n matches the CSS selector
Matches(n, selector) ==
    CASE selector = "button" -> kind[n] \in {"button", "button#x"}
      [] selector = "#x" -> kind[n] = "button#x"
      [] OTHER -> FALSE

\* variant: element.querySelectorAll(selector), which matches at any depth
QuerySelectorAllDescendants(e, selector) ==
    SelectSeq([i \in 1..MaxNodes |-> i],
              LAMBDA n : IsDescendant(n, e) /\ Matches(n, selector))

\* element.querySelectorAll(`:scope > ${selector}`)
QuerySelectorAllScope(e, selector) ==
    SelectSeq(Children(e), LAMBDA n : Matches(n, selector))

\* defaultIsSpecialEntity
DefaultIsSpecialEntity == [n \in Nodes |-> Len(Children(n)) = 0]

(***************************************************************************)
(* addChildren.                                                            *)
(***************************************************************************)
\* variant: an array that is pushed to, in place of a Set
SetAddDuplicate(set, x) == Append(set, x)

\* Set.prototype.add on a Set kept in insertion order
SetAdd(set, x) == IF x \in Range(set) THEN set ELSE Append(set, x)

RECURSIVE SetAddAll(_, _)
SetAddAll(set, xs) ==
    IF xs = <<>> THEN set ELSE SetAddAll(SetAdd(set, Head(xs)), Tail(xs))

\* the first loop of addChildren: the children matched by a selector
RECURSIVE SelectorLoop(_, _)
SelectorLoop(e, selectors) ==
    IF selectors = <<>> THEN <<>>
    ELSE LET front == SelectorLoop(e, SubSeq(selectors, 1, Len(selectors) - 1))
         IN  SetAddAll(front, QuerySelectorAllScope(e, selectors[Len(selectors)]))

\* a call of addChildren(element) that has run its first loop
Frame(e) ==
    [element |-> e,
     eligibleChildren |-> SelectorLoop(e, entitySelectors),
     i |-> 1,
     awaiting |-> "nothing"]

\* variant: `if (width === 0 && height === 0) continue;`
IsZeroSizeBoth(n) == rect[n].width = 0 /\ rect[n].height = 0

\* `if (width === 0 || height === 0) continue;`
IsZeroSize(n) == rect[n].width = 0 \/ rect[n].height = 0

\* variant: a child that already carries the shrink class is skipped
ThirdLoopSkipShrunk(eligibleChildren) ==
    SelectSeq(eligibleChildren, LAMBDA n : ~IsZeroSize(n) /\ n \notin shrunk)

\* the third loop of addChildren: the children addEntity is called for
ThirdLoop(eligibleChildren) ==
    SelectSeq(eligibleChildren, LAMBDA n : ~IsZeroSize(n))

Top == stack[Len(stack)]

SetTop(f) == [stack EXCEPT ![Len(stack)] = f]

\* the second loop reaches a child; `has` is eligibleChildren.has(child):
\* a child that is in the set stays eligible, for any other
\* isSpecialEntity is called and awaited
VisitChild(has) ==
    /\ pc = "walking"
    /\ Top.awaiting = "nothing"
    /\ Top.i <= Len(Children(Top.element))
    /\ LET child == Children(Top.element)[Top.i]
       IN  IF has[child]
           THEN stack' = SetTop([Top EXCEPT
                    !.eligibleChildren = SetAdd(@, child), !.i = @ + 1])
           ELSE stack' = SetTop([Top EXCEPT !.awaiting = "isSpecialEntity"])
    /\ LET child == Children(Top.element)[Top.i]
       IN  asked' = IF has[child] THEN asked
                    ELSE [asked EXCEPT ![child] = @ + 1]
    /\ UNCHANGED <<pc, shrunk, visited, entityCalls, runs, firstEntities>>
    /\ UNCHANGED <<docVars, entityVars, mouseVars>>

\* variant: `if (!(await isSpecialEntity(child)))`, the predicate is asked
\* about every child
addChildrenVisitAsksAll == VisitChild([n \in Nodes |-> FALSE])

\* `if (!eligibleChildren.has(child) && !(await isSpecialEntity(child)))`
addChildrenVisit ==
    VisitChild([n \in Nodes |-> n \in Range(Top.eligibleChildren)])

\* variant: addChildren(child) is called also for a child the predicate is
\* true for
addChildrenPredicateDescendsAll ==
    /\ pc = "walking"
    /\ Top.awaiting = "isSpecialEntity"
    /\ Children(Top.element)[Top.i] \notin throws
    /\ LET child == Children(Top.element)[Top.i]
       IN  /\ stack' = Append(
                  SetTop([Top EXCEPT
                      !.eligibleChildren =
                          IF predicate[child] THEN SetAdd(@, child) ELSE @,
                      !.awaiting = "addChildren"]),
                  Frame(child))
           /\ visited' = visited \cup {child}
    /\ UNCHANGED <<pc, shrunk, entityCalls, runs, firstEntities, asked>>
    /\ UNCHANGED <<docVars, entityVars, mouseVars>>

\* isSpecialEntity(child) resolves: true makes the child eligible, false
\* calls addChildren(child), which runs its first loop
addChildrenPredicate ==
    /\ pc = "walking"
    /\ Top.awaiting = "isSpecialEntity"
    /\ Children(Top.element)[Top.i] \notin throws
    /\ LET child == Children(Top.element)[Top.i]
       IN  IF predicate[child]
           THEN /\ stack' = SetTop([Top EXCEPT
                    !.eligibleChildren = SetAdd(@, child), !.i = @ + 1,
                    !.awaiting = "nothing"])
                /\ visited' = visited
           ELSE /\ stack' = Append(SetTop([Top EXCEPT !.awaiting = "addChildren"]),
                                   Frame(child))
                /\ visited' = visited \cup {child}
    /\ UNCHANGED <<pc, shrunk, entityCalls, runs, firstEntities, asked>>
    /\ UNCHANGED <<docVars, entityVars, mouseVars>>

\* isSpecialEntity(child) throws or rejects: the await throws in
\* addChildren, which has no try; every addChildren call on the stack
\* rejects in turn without reaching its third loop, then addElementsToScene
\* and gravitify reject: addMouseEvents, Runner.run and Render.run are not
\* called
addChildrenPredicateRejects ==
    /\ pc = "walking"
    /\ Top.awaiting = "isSpecialEntity"
    /\ Children(Top.element)[Top.i] \in throws
    /\ stack' = <<>>
    /\ pc' = "rejected"
    /\ UNCHANGED <<shrunk, visited, entityCalls, runs, firstEntities, asked>>
    /\ UNCHANGED <<docVars, entityVars, mouseVars>>

\* JavaScript's `a || b` on numbers: b when a is undefined or 0
OrElse(a, b) == IF a = Undefined \/ a = 0 THEN b ELSE a

\* createBody(x, y, velocity, angle, angularVelocity) up to its await of
\* image(sourceElement): the arguments of Bodies.rectangle are evaluated,
\* the capture is started
CreateBodyCall(n, sourceRect, x, y, velocity, angle, angularVelocity) ==
    [sourceElement |-> n,
     sourceRect |-> sourceRect,
     x |-> OrElse(x, sourceRect.left - rootRect.left + (rect[n].clientWidth \div 2)),
     y |-> OrElse(y, sourceRect.top - rootRect.top),
     velocity |-> velocity,
     angle |-> angle,
     angularVelocity |-> angularVelocity,
     version |-> content[n]]

\* addEntity(engine, child, ...): the shrink class is added, sourceRect is
\* measured and createBody() is called with no arguments
AddEntityCalls(selected) ==
    [c \in {CreateBodyCall(n, rect[n], Undefined, Undefined, <<>>,
                           Undefined, Undefined) : n \in Range(selected)}
        |-> Count(selected, c.sourceElement)]

\* variant: the promise of a nested addChildren(child) is never resolved,
\* so the addChildren that awaits it does not go on
addChildrenReturnNestedPending ==
    /\ pc = "walking"
    /\ Top.awaiting = "nothing"
    /\ Top.i > Len(Children(Top.element))
    /\ LET selected == ThirdLoop(Top.eligibleChildren)
       IN  /\ shrunk' = shrunk \cup Range(selected)
           /\ entityCalls' = [n \in Nodes |-> entityCalls[n] + Count(selected, n)]
           /\ creating' = creating (+) AddEntityCalls(selected)
    /\ IF Len(stack) = 1
       THEN /\ stack' = <<>>
            /\ pc' = "running"
       ELSE /\ stack' = SubSeq(stack, 1, Len(stack) - 1)
            /\ pc' = pc
    /\ constraintDefinition' =
         IF Len(stack) = 1 THEN ConstraintDefinition(Leaf("undefined"))
         ELSE constraintDefinition
    /\ UNCHANGED <<visited, runs, firstEntities, asked>>
    /\ UNCHANGED <<bodies, world, resyncs, lastResync>>
    /\ UNCHANGED <<mousedownNotDrag, mouseMoveCount, mouseBody, gesture, forwarded>>
    /\ UNCHANGED docVars

\* the second loop is over: the third loop calls addEntity for the eligible
\* children that have a size, and the call returns to the addChildren that
\* awaits it; when it is the call for the root element, gravitify goes on:
\* addMouseEvents(engine, render), called without physicsOptions, then
\* Runner.run and Render.run
addChildrenReturn ==
    /\ pc = "walking"
    /\ Top.awaiting = "nothing"
    /\ Top.i > Len(Children(Top.element))
    /\ LET selected == ThirdLoop(Top.eligibleChildren)
       IN  /\ shrunk' = shrunk \cup Range(selected)
           /\ entityCalls' = [n \in Nodes |-> entityCalls[n] + Count(selected, n)]
           /\ creating' = creating (+) AddEntityCalls(selected)
    /\ IF Len(stack) = 1
       THEN /\ stack' = <<>>
            /\ pc' = "running"
       ELSE /\ stack' = [SubSeq(stack, 1, Len(stack) - 1) EXCEPT
                    ![Len(stack) - 1].i = @ + 1,
                    ![Len(stack) - 1].awaiting = "nothing"]
            /\ pc' = pc
    /\ constraintDefinition' =
         IF Len(stack) = 1 THEN ConstraintDefinition(Leaf("undefined"))
         ELSE constraintDefinition
    /\ UNCHANGED <<visited, runs, firstEntities, asked>>
    /\ UNCHANGED <<bodies, world, resyncs, lastResync>>
    /\ UNCHANGED <<mousedownNotDrag, mouseMoveCount, mouseBody, gesture, forwarded>>
    /\ UNCHANGED docVars

\* the elements addEntity has been called for in this build
EntitySet == {n \in Nodes : entityCalls[n] > 0}

(***************************************************************************)
(* addElementsToScene: the four walls.                                     *)
(***************************************************************************)
StaticBody(x, y, width, height) ==
    [sourceElement |-> Undefined,
     sourceRect |-> [left |-> Undefined, top |-> Undefined,
                     width |-> Undefined, height |-> Undefined,
                     clientWidth |-> Undefined],
     x |-> x, y |-> y, width |-> width, height |-> height,
     velocity |-> <<0, 0>>, angle |-> 0, angularVelocity |-> 0,
     texture |-> Undefined,
     oldDimensions |-> [width |-> Undefined, height |-> Undefined],
     definition |-> [k \in {"isStatic"} |-> Leaf("true")],
     isStatic |-> TRUE]

\* variant: the right wall made with the width in place of the height
BoundaryBodiesRightWallWidth(optionsWidth, optionsHeight) ==
    LET width == OrElse(optionsWidth, DefaultWidth)
        height == OrElse(optionsHeight, DefaultHeight)
    IN  << StaticBody(width \div 2, height, width, WallThickness),
           StaticBody(width \div 2, 0, width, WallThickness),
           StaticBody(0, height \div 2, WallThickness, height),
           StaticBody(width, width \div 2, WallThickness, width) >>

\* floor, ceiling, leftWall, rightWall
BoundaryBodies(optionsWidth, optionsHeight) ==
    LET width == OrElse(optionsWidth, DefaultWidth)
        height == OrElse(optionsHeight, DefaultHeight)
    IN  << StaticBody(width \div 2, height, width, WallThickness),
           StaticBody(width \div 2, 0, width, WallThickness),
           StaticBody(0, height \div 2, WallThickness, height),
           StaticBody(width, height \div 2, WallThickness, height) >>

(***************************************************************************)
(* addEntity: createBody and updateTexture.                                *)
(***************************************************************************)
\* createBody resumes with the captured image: the body is made, velocity,
\* angle and angular velocity are set when they were passed and are truthy,
\* the updateTexture listeners are registered and the body joins the world
NewBody(c, texture) ==
    [sourceElement |-> c.sourceElement,
     sourceRect |-> c.sourceRect,
     x |-> c.x, y |-> c.y,
     width |-> c.sourceRect.width, height |-> c.sourceRect.height,
     velocity |-> IF c.velocity # <<>> THEN c.velocity ELSE <<0, 0>>,
     angle |-> OrElse(c.angle, 0),
     angularVelocity |-> OrElse(c.angularVelocity, 0),
     texture |-> texture,
     oldDimensions |-> [width |-> c.sourceRect.width,
                        height |-> c.sourceRect.height],
     definition |-> BodyDefinition(physicsOptions),
     isStatic |-> Truthy(Chain(Map(BodyDefinition(physicsOptions)), "isStatic"))]

\* what the capture started at `version` can show: the element as it was
\* at some moment between the start of the capture and its end
Captured(n, version) == version..content[n]

createBodyResume(c) ==
    /\ BagIn(c, creating)
    /\ Len(bodies) < MaxBodies
    /\ \E texture \in Captured(c.sourceElement, c.version) :
         bodies' = Append(bodies, NewBody(c, texture))
    /\ world' = world \cup {Len(bodies) + 1}
    /\ creating' = creating (-) SetToBag({c})
    /\ UNCHANGED <<resyncs, lastResync>>
    /\ UNCHANGED <<docVars, buildVars, mouseVars>>

\* variant: the third loop of addChildren awaits addEntity, so that the
\* rejection rejects addChildren, addElementsToScene and gravitify
createBodyRejectAwaited(c) ==
    /\ BagIn(c, creating)
    /\ creating' = creating (-) SetToBag({c})
    /\ pc' = "rejected"
    /\ stack' = <<>>
    /\ UNCHANGED <<shrunk, visited, entityCalls, runs, firstEntities, asked>>
    /\ UNCHANGED <<bodies, world, resyncs, lastResync>>
    /\ UNCHANGED <<docVars, mouseVars>>

\* image(sourceElement) rejects in createBody: addEntity rejects, nobody
\* awaits it, no body is made
createBodyReject(c) ==
    /\ BagIn(c, creating)
    /\ creating' = creating (-) SetToBag({c})
    /\ UNCHANGED <<bodies, world, resyncs, lastResync>>
    /\ UNCHANGED <<docVars, buildVars, mouseVars>>

\* the bodies whose updateTexture is registered on element n: every body
\* createBody made for n (no listener is ever removed)
Listeners(n) == {h \in 1..Len(bodies) : bodies[h].sourceElement = n}

\* the widths an element with a size takes when its content changes
Sizes == {2, 4}

\* updateTexture is called for each of the bodies hs, and each call
\* starts a capture of the element as it is now
UpdateTextureCalls(hs, version) ==
    [r \in {[body |-> h, version |-> version] : h \in hs} |-> 1]

\* element n changes (an input, change or resize event, or a mutation of
\* its attributes or child list), keeping or changing its width, or is
\* reported to have changed: every
\* updateTexture registered on n is called and, the texture of its body
\* being set, starts a capture
changeNotification(n) ==
    /\ entityCalls[n] > 0
    /\ \/ UNCHANGED <<content, rect>>
       \/ /\ content[n] < MaxVersion
          /\ content' = [content EXCEPT ![n] = @ + 1]
          /\ \E width \in Sizes :
               rect' = [rect EXCEPT ![n].width = width, ![n].clientWidth = width]
    /\ LET started == UpdateTextureCalls(
                {h \in Listeners(n) : bodies[h].texture # Undefined},
                content'[n])
       IN  /\ BagCardinality(resyncs) + BagCardinality(started) <= MaxInFlight
           /\ resyncs' = resyncs (+) started
    /\ UNCHANGED <<parent, kind, predicate, throws, entitySelectors, rootRect,
                   physicsOptions, engineDefinition>>
    /\ UNCHANGED <<creating, bodies, world, lastResync>>
    /\ UNCHANGED <<buildVars, mouseVars>>

\* whether the element's size differs from the size its body was made with
DimensionsDiffer(h) ==
    \/ rect[bodies[h].sourceElement].width # bodies[h].oldDimensions.width
    \/ rect[bodies[h].sourceElement].height # bodies[h].oldDimensions.height

\* variant: the condition with its identifiers declared, comparing the
\* element's size now with oldDimensions
TextureSizeChangedDeclared(h) == IF DimensionsDiffer(h) THEN "true" ELSE "false"

\* `newTextureWidth !== newBody.oldDimensions.width ||
\*  newTextureHeight !== newBodyd.oldDimensions.height`: newTextureWidth,
\* newTextureHeight and newBodyd are declared nowhere, so evaluating the
\* condition throws a ReferenceError
TextureSizeChanged(h) == "ReferenceError"

\* variant: the capture is assigned only when it shows a later content than
\* the texture the body has
AssignTextureIfNewer(old, new) == IF new > old THEN new ELSE old

\* `newBody.render.sprite.texture = await image(sourceElement);`
AssignTexture(old, new) == new

\* lastResync before any updateTexture has resumed or failed; `rejected` is
\* the body of the updateTexture whose capture rejected, while that is the
\* call that ended last
NoResync ==
    [body |-> Null, differed |-> FALSE, outcome |-> "none",
     texture |-> Undefined, overlapped |-> FALSE, rejected |-> Null]

\* updateTexture from the assignment of the texture on: `changed` is what
\* the size condition gives; only when it is true the body is removed and
\* createBody is called with the body's position and motion
UpdateTexture(r, changed) ==
    /\ BagIn(r, resyncs)
    /\ LET h == r.body
           n == bodies[h].sourceElement
       IN  /\ \E texture \in Captured(n, r.version) :
                /\ bodies' = [bodies EXCEPT
                        ![h].texture = AssignTexture(@, texture)]
                /\ lastResync' =
                     [body |-> h, differed |-> DimensionsDiffer(h),
                      outcome |-> changed, texture |-> texture,
                      overlapped |-> \/ resyncs[r] > 1
                                     \/ \E q \in BagToSet(resyncs) \ {r} : q.body = h
                                     \/ lastResync.body = h /\ lastResync.overlapped,
                      rejected |-> Null]
           /\ IF changed = "true"
              THEN /\ world' = world \ {h}
                   /\ creating' = creating (+) SetToBag(
                        {CreateBodyCall(n, bodies[h].sourceRect,
                            bodies[h].x, bodies[h].y, bodies[h].velocity,
                            bodies[h].angle, bodies[h].angularVelocity)})
              ELSE UNCHANGED <<world, creating>>
    /\ resyncs' = resyncs (-) SetToBag({r})
    /\ UNCHANGED <<docVars, buildVars, mouseVars>>

\* variant: every resync rebuilds the body, whatever its size
updateTextureResumeRebuild(r) == UpdateTexture(r, "true")

\* updateTexture resumes with the captured image
updateTextureResume(r) == UpdateTexture(r, TextureSizeChanged(r.body))

\* variant: the texture is cleared before the capture is awaited, so a
\* capture that rejects leaves the body without a texture
updateTextureRejectClearsTexture(r) ==
    /\ BagIn(r, resyncs)
    /\ resyncs' = resyncs (-) SetToBag({r})
    /\ bodies' = [bodies EXCEPT ![r.body].texture = Undefined]
    /\ lastResync' = [lastResync EXCEPT !.rejected = r.body]
    /\ UNCHANGED <<creating, world>>
    /\ UNCHANGED <<docVars, buildVars, mouseVars>>

\* image(sourceElement) rejects in updateTexture: nothing is assigned
updateTextureReject(r) ==
    /\ BagIn(r, resyncs)
    /\ resyncs' = resyncs (-) SetToBag({r})
    /\ lastResync' = [lastResync EXCEPT !.rejected = r.body]
    /\ UNCHANGED <<creating, bodies, world>>
    /\ UNCHANGED <<docVars, buildVars, mouseVars>>

(***************************************************************************)
(* Runner.run: the engine updates the world.                               *)
(***************************************************************************)
\* where and how a body can be after an update of the engine
Motions ==
    { [x |-> 0, y |-> 5, velocity |-> <<1, 2>>, angle |-> 1, angularVelocity |-> 1] }

\* variant: the walls made without `isStatic: true`
MovingWallsToo == world

\* the bodies of the world the engine moves
Moving == {h \in world : ~bodies[h].isStatic}

\* variant: Runner.run(runner, engine) called before
\* `await addElementsToScene(...)`
RunnerStartedBeforeWalk == TRUE

\* Runner.run(runner, engine) has been called: it is called after
\* `await addElementsToScene(...)` and addMouseEvents
RunnerStarted == pc = "running"

\* one Engine.update: every body of the world that is not static moves
engineUpdate ==
    /\ RunnerStarted
    /\ Moving # {}
    /\ \E m \in [Moving -> Motions] :
         bodies' = [h \in 1..Len(bodies) |->
                      IF h \in Moving
                      THEN [bodies[h] EXCEPT !.x = m[h].x, !.y = m[h].y,
                                !.velocity = m[h].velocity,
                                !.angle = m[h].angle,
                                !.angularVelocity = m[h].angularVelocity]
                      ELSE bodies[h]]
    /\ UNCHANGED <<creating, world, resyncs, lastResync>>
    /\ UNCHANGED <<docVars, buildVars, mouseVars>>

(***************************************************************************)
(* addMouseEvents: the handlers of the mouse constraint.                   *)
(***************************************************************************)
NoCalls == [event |-> "none", calls |-> <<>>, error |-> "none"]

\* the "mousedown" handler, setting mouseMoveCount to `count`
MouseDown(body, count) ==
    /\ pc = "running"
    /\ body \in world \cup {Null}
    /\ mousedownNotDrag' = TRUE
    /\ mouseMoveCount' = count
    /\ mouseBody' = body
    /\ UNCHANGED constraintDefinition
    /\ gesture' = [down |-> TRUE, moves |-> 0, body |-> body, ups |-> 0,
                   afterDrag |-> gesture.down /\ gesture.moves >= ClickMoveThreshold]
    /\ forwarded' = [NoCalls EXCEPT !.event = "mousedown"]
    /\ UNCHANGED <<docVars, buildVars, entityVars>>

\* variant: the handler without `mouseMoveCount = 0;`
mousedownKeepsCount(body) == MouseDown(body, mouseMoveCount)

\* "mousedown": body is mouseConstraint.body, a body of the world or null
mousedown(body) == MouseDown(body, 0)

\* the "mousemove" handler, a drag from `threshold` moves on
MouseMove(threshold) ==
    /\ pc = "running"
    /\ mouseMoveCount < MaxMoves
    /\ mouseMoveCount' = mouseMoveCount + 1
    /\ mousedownNotDrag' =
         IF mouseMoveCount + 1 < threshold THEN mousedownNotDrag ELSE FALSE
    /\ gesture' = [gesture EXCEPT !.moves = IF @ < MaxMoves THEN @ + 1 ELSE @]
    /\ forwarded' = [NoCalls EXCEPT !.event = "mousemove"]
    /\ UNCHANGED <<mouseBody, constraintDefinition>>
    /\ UNCHANGED <<docVars, buildVars, entityVars>>

\* variant: `if (mouseMoveCount <= 5) return;`
mousemoveOffByOne == MouseMove(ClickMoveThreshold + 1)

\* "mousemove": `mouseMoveCount++; if (mouseMoveCount < 5) return;
\* mousedownNotDrag = false;`
mousemove == MouseMove(ClickMoveThreshold)

\* the "mouseup" handler, taking `body` for the body of the gesture:
\* click() and focus() on its source element; a body without a source
\* element makes sourceElement.click() a TypeError
MouseUp(body) ==
    /\ pc = "running"
    /\ forwarded' =
         IF mousedownNotDrag /\ body # Null
         THEN LET sourceElement == bodies[body].sourceElement
              IN  IF sourceElement = Undefined
                  THEN [event |-> "mouseup", calls |-> <<>>, error |-> "TypeError"]
                  ELSE [event |-> "mouseup",
                        calls |-> << <<"click", sourceElement>>,
                                     <<"focus", sourceElement>> >>,
                        error |-> "none"]
         ELSE [NoCalls EXCEPT !.event = "mouseup"]
    /\ gesture' = [gesture EXCEPT !.ups = IF @ < 2 THEN @ + 1 ELSE @]
    /\ UNCHANGED <<mousedownNotDrag, mouseMoveCount, mouseBody, constraintDefinition>>
    /\ UNCHANGED <<docVars, buildVars, entityVars>>

\* variant: `if (mousedownNotDrag && mouseConstraint.body)`, the body under
\* the pointer when the button is released
mouseupBodyUnderPointer == \E body \in world \cup {Null} : MouseUp(body)

\* "mouseup": `if (mousedownNotDrag && mouseBody)`, the body the
\* "mousedown" handler recorded
mouseup == MouseUp(mouseBody)

(***************************************************************************)
(* gravitify.                                                              *)
(***************************************************************************)
\* the scene right after gravitify(rootElement, ...) was called: the engine
\* and the walls are made and addChildren(rootElement) has run its first loop
SceneStart ==
    /\ engineDefinition = EngineDefinition(physicsOptions)
    /\ pc = "walking"
    /\ stack = <<Frame(Root)>>
    /\ visited = {Root}
    /\ asked = [n \in Nodes |-> 0]
    /\ entityCalls = [n \in Nodes |-> 0]
    /\ creating = EmptyBag
    /\ bodies = BoundaryBodies(rootRect.width, rootRect.height)
    /\ world = 1..4
    /\ resyncs = EmptyBag
    /\ lastResync = NoResync
    /\ mousedownNotDrag = FALSE
    /\ mouseMoveCount = 0
    /\ mouseBody = Null
    /\ constraintDefinition = Leaf("undefined")
    /\ gesture = [down |-> FALSE, moves |-> 0, body |-> Null, ups |-> 0,
                  afterDrag |-> FALSE]
    /\ forwarded = NoCalls

\* gravitify is called once more on the same root element, with the same
\* arguments, after the first call has returned: a new engine, new walls,
\* new handlers, a new walk; the model follows the scene of the latest call
\* and keeps the entity set of the call before
gravitify ==
    /\ pc = "running"
    /\ runs < MaxRuns
    /\ UNCHANGED docVars
    /\ UNCHANGED shrunk
    /\ runs' = runs + 1
    /\ firstEntities' = EntitySet
    /\ pc' = "walking"
    /\ stack' = <<Frame(Root)>>
    /\ visited' = {Root}
    /\ asked' = [n \in Nodes |-> 0]
    /\ entityCalls' = [n \in Nodes |-> 0]
    /\ creating' = EmptyBag
    /\ bodies' = BoundaryBodies(rootRect.width, rootRect.height)
    /\ world' = 1..4
    /\ resyncs' = EmptyBag
    /\ lastResync' = NoResync
    /\ mousedownNotDrag' = FALSE
    /\ mouseMoveCount' = 0
    /\ mouseBody' = Null
    /\ constraintDefinition' = Leaf("undefined")
    /\ gesture' = [down |-> FALSE, moves |-> 0, body |-> Null, ups |-> 0,
                   afterDrag |-> FALSE]
    /\ forwarded' = NoCalls

\* where an element is and how large
Geometry(n, width, height) ==
    [left |-> 2 * (n - 1), top |-> n - 1, width |-> width, height |-> height,
     clientWidth |-> width]

\* the documents of the model: every element hangs below the root element
\* or below the element before it
Trees == {p \in [Nodes -> Elements] : \A n \in Nodes : p[n] \in {Root, n - 1}}

\* what an element is: tag and id, its size, what the predicate says of it
Profiles ==
    { [kind |-> "div", predicate |-> FALSE, width |-> 2, height |-> 2],
      [kind |-> "div", predicate |-> TRUE, width |-> 2, height |-> 2],
      [kind |-> "div", predicate |-> TRUE, width |-> 0, height |-> 2],
      [kind |-> "div", predicate |-> FALSE, width |-> 2, height |-> 0],
      [kind |-> "button", predicate |-> TRUE, width |-> 4, height |-> 2],
      [kind |-> "button#x", predicate |-> FALSE, width |-> 4, height |-> 2],
      [kind |-> "button#x", predicate |-> TRUE, width |-> 4, height |-> 0] }

SelectorLists == { <<>>, <<"button">>, <<"#x", "button">> }

\* any document, any predicate, any of the selector lists
InitWalk ==
    /\ parent \in Trees
    /\ \E profile \in [Nodes -> Profiles] :
         /\ kind = [n \in Nodes |-> profile[n].kind]
         /\ predicate = [n \in Nodes |-> profile[n].predicate]
         /\ rect = [n \in Nodes |->
                      Geometry(n, profile[n].width, profile[n].height)]
    /\ content = [n \in Nodes |-> 1]
    /\ throws = {}
    /\ entitySelectors \in SelectorLists
    /\ rootRect = [left |-> 0, top |-> 0, width |-> 8, height |-> 6]
    /\ physicsOptions = Leaf("undefined")
    /\ shrunk = {}
    /\ runs = 1
    /\ firstEntities = {}
    /\ SceneStart

\* the page of the README: a button and, nested in divs, an element
\* without children; the default predicate
Init ==
    /\ parent = [n \in Nodes |-> IF n <= 2 THEN Root ELSE n - 1]
    /\ kind = [n \in Nodes |-> IF n = 1 THEN "button#x" ELSE "div"]
    /\ predicate = DefaultIsSpecialEntity
    /\ rect = [n \in Nodes |-> Geometry(n, 2, 2)]
    /\ content = [n \in Nodes |-> 1]
    /\ throws = {}
    /\ entitySelectors = <<"#x", "button">>
    /\ rootRect = [left |-> 0, top |-> 0, width |-> 8, height |-> 6]
    /\ physicsOptions = Leaf("undefined")
    /\ shrunk = {}
    /\ runs = 1
    /\ firstEntities = {}
    /\ SceneStart

\* the page of the README in a root element of any width and height, 0
\* included, with an isSpecialEntity that throws for some of the elements
InitBuild ==
    /\ parent = [n \in Nodes |-> IF n <= 2 THEN Root ELSE n - 1]
    /\ kind = [n \in Nodes |-> IF n = 1 THEN "button#x" ELSE "div"]
    /\ predicate = DefaultIsSpecialEntity
    /\ rect = [n \in Nodes |-> Geometry(n, 2, 2)]
    /\ content = [n \in Nodes |-> 1]
    /\ throws \in SUBSET Nodes
    /\ entitySelectors = <<"#x", "button">>
    /\ \E width \in 0..MaxSide, height \in 0..MaxSide :
         rootRect = [left |-> 0, top |-> 0, width |-> width, height |-> height]
    /\ physicsOptions = Leaf("undefined")
    /\ shrunk = {}
    /\ runs = 1
    /\ firstEntities = {}
    /\ SceneStart

\* the fields of PhysicsOptions: engine, gravity, body, mouse
Fields ==
    ({"engine"} \X {"positionIterations", "velocityIterations",
                    "enableSleeping", "constraintIterations"})
    \cup ({"gravity"} \X {"x", "y"})
    \cup ({"body"} \X {"density", "restitution", "friction", "frictionAir",
                       "isStatic"})
    \cup ({"mouse"} \X {"stiffness", "damping"})

\* the physicsOptions a caller passes: none, one with one field given, one
\* with a group that is null
Bundles ==
    {Leaf("undefined")}
    \cup {Map([g \in {f[1]} |-> Map([k \in {f[2]} |-> Leaf(v)])]) :
            f \in Fields, v \in Values}
    \cup {Map([g \in {group} |-> Leaf("null")]) :
            group \in {"engine", "gravity", "body", "mouse"}}

\* width and clientWidth of an element: an even width, an odd width, a
\* width that includes a border of 1 on each side
Boxes ==
    { [width |-> 2, clientWidth |-> 2],
      [width |-> 3, clientWidth |-> 3],
      [width |-> 4, clientWidth |-> 2] }

\* the page of the README with elements of some box, in a root element
\* somewhere in the viewport, with any of the physicsOptions
InitCreate ==
    /\ parent = [n \in Nodes |-> IF n <= 2 THEN Root ELSE n - 1]
    /\ kind = [n \in Nodes |-> IF n = 1 THEN "button#x" ELSE "div"]
    /\ predicate = DefaultIsSpecialEntity
    /\ \E box \in Boxes, offset \in 0..MaxOffset :
         /\ rect = [n \in Nodes |->
                [Geometry(n, box.width, 2) EXCEPT
                    !.clientWidth = box.clientWidth,
                    !.left = @ + offset, !.top = @ + offset]]
         /\ rootRect = [left |-> offset, top |-> offset,
                        width |-> 8, height |-> 6]
    /\ content = [n \in Nodes |-> 1]
    /\ throws = {}
    /\ entitySelectors = <<"#x", "button">>
    /\ physicsOptions \in Bundles
    /\ shrunk = {}
    /\ runs = 1
    /\ firstEntities = {}
    /\ SceneStart

addChildren == addChildrenVisit \/ addChildrenPredicate \/ addChildrenReturn

\* the walk alone, run MaxRuns times
NextWalk ==
    \/ addChildrenVisit
    \/ addChildrenPredicate
    \/ addChildrenReturn
    \/ gravitify

\* the build of the scene: the walk with a predicate that can throw, the
\* creation of the bodies
NextBuild ==
    \/ addChildrenVisit
    \/ addChildrenPredicate
    \/ addChildrenPredicateRejects
    \/ addChildrenReturn
    \/ \E c \in BagToSet(creating) : createBodyResume(c)

\* the creation of the scene: the walk, the creation of the bodies, the
\* engine
NextCreate ==
    \/ addChildrenVisit
    \/ addChildrenPredicate
    \/ addChildrenReturn
    \/ \E c \in BagToSet(creating) : createBodyResume(c)
    \/ engineUpdate

\* the scene: the walk, the entities, the changes of the document, the engine
Next ==
    \/ addChildrenVisit
    \/ addChildrenPredicate
    \/ addChildrenReturn
    \/ \E c \in BagToSet(creating) : createBodyResume(c)
    \/ \E c \in BagToSet(creating) : createBodyReject(c)
    \/ \E n \in Nodes : changeNotification(n)
    \/ \E r \in BagToSet(resyncs) : updateTextureResume(r)
    \/ \E r \in BagToSet(resyncs) : updateTextureReject(r)
    \/ engineUpdate

\* the scene and the mouse: the walk, the entities, the mouse events
NextMouse ==
    \/ addChildrenVisit
    \/ addChildrenPredicate
    \/ addChildrenReturn
    \/ \E c \in BagToSet(creating) : createBodyResume(c)
    \/ \E body \in 0..MaxBodies : mousedown(body)
    \/ mousemove
    \/ mouseup

Spec == Init /\ [][Next]_vars

SpecWalk == InitWalk /\ [][NextWalk]_vars

SpecMouse == Init /\ [][NextMouse]_vars

SpecBuild == InitBuild /\ [][NextBuild]_vars

SpecCreate == InitCreate /\ [][NextCreate]_vars

\* any document with any predicate, which throws for some elements or for
\* none; the page of the README otherwise
InitTree ==
    /\ parent \in Trees
    /\ kind = [n \in Nodes |-> IF n = 1 THEN "button" ELSE "div"]
    /\ predicate \in [Nodes -> BOOLEAN]
    /\ rect = [n \in Nodes |-> Geometry(n, 2, 2)]
    /\ content = [n \in Nodes |-> 1]
    /\ throws \in {{}} \cup {{n} : n \in Nodes}
    /\ entitySelectors = <<"button">>
    /\ rootRect = [left |-> 0, top |-> 0, width |-> 8, height |-> 6]
    /\ physicsOptions = Leaf("undefined")
    /\ shrunk = {}
    /\ runs = 1
    /\ firstEntities = {}
    /\ SceneStart

\* gravitify from `await addElementsToScene(...)` on, with the createBody
\* calls that addEntity leaves unawaited
NextTree ==
    \/ addChildrenVisit
    \/ addChildrenPredicate
    \/ addChildrenPredicateRejects
    \/ addChildrenReturn
    \/ \E c \in BagToSet(creating) : createBodyResume(c)

\* the code of an async function runs on when the promise it awaits is
\* settled: each step of the walk that can be taken is taken. No capture
\* has to resolve: nothing awaits createBody
SpecTree ==
    /\ InitTree
    /\ [][NextTree]_vars
    /\ WF_vars(addChildrenVisit)
    /\ WF_vars(addChildrenPredicate)
    /\ WF_vars(addChildrenPredicateRejects)
    /\ WF_vars(addChildrenReturn)

(***************************************************************************)
(* The entities and their bodies.                                          *)
(***************************************************************************)
\* the bodies of the world made for element n
LiveBodies(n) == {h \in world : bodies[h].sourceElement = n}

\* C1: in every reachable state, whatever the interleaving of change
\* notifications, capture completions and engine updates, every element
\* has at most one body in the world.
C1_AtMostOneLiveBody == \A n \in Nodes : Cardinality(LiveBodies(n)) <= 1

\* two elements have their body in the world, the engine has moved them and
\* an updateTexture of one of them has resumed while another is in flight
C1_Witness ==
    /\ \A n \in {1, MaxNodes} : Cardinality(LiveBodies(n)) = 1
    /\ lastResync.body \in world
    /\ bodies[lastResync.body].velocity # <<0, 0>>
    /\ resyncs # EmptyBag

\* C2: when an updateTexture resumes and the element's width or height
\* differs from the body's oldDimensions, the body leaves the world and a
\* body is being created with the velocity, angle and angular velocity the
\* removed body has at that moment.
C2_ChangedSizeReplacesBody ==
    [][\A r \in BagToSet(resyncs) :
         (updateTextureResume(r) /\ r.body \in world /\ DimensionsDiffer(r.body))
         => /\ r.body \notin world'
            /\ \E c \in BagToSet(creating') :
                 /\ c.sourceElement = bodies[r.body].sourceElement
                 /\ c.velocity = bodies[r.body].velocity
                 /\ c.angle = bodies[r.body].angle
                 /\ c.angularVelocity = bodies[r.body].angularVelocity]_vars

\* C3: when an updateTexture resumes and the element's width and height
\* equal the body's oldDimensions, nothing but the texture of that body
\* changes: same handle in the same world, same position, velocity, angle,
\* no body created or being created.
C3_SameSizeOnlyTexture ==
    [][\A r \in BagToSet(resyncs) :
         (updateTextureResume(r) /\ ~DimensionsDiffer(r.body))
         => /\ world' = world
            /\ creating' = creating
            /\ bodies' = [bodies EXCEPT ![r.body].texture = bodies'[r.body].texture]]_vars

\* an updateTexture that found the size unchanged has resumed for a body the
\* engine has moved, and gave it the capture of the element's new content
C3_Witness ==
    /\ lastResync.body \in world
    /\ ~lastResync.differed
    /\ bodies[lastResync.body].texture = 2
    /\ bodies[lastResync.body].velocity # <<0, 0>>
    /\ bodies[lastResync.body].x = 0

(***************************************************************************)
(* The order of the scene build.                                           *)
(***************************************************************************)
\* C11: in the step in which the call of addChildren for the root element
\* returns and gravitify goes on to addMouseEvents, Runner.run and
\* Render.run, every element addEntity was called for has its body in the
\* world.
C11_BodiesBeforeLoops ==
    [][(pc = "walking" /\ pc' = "running")
       => \A n \in Nodes : entityCalls'[n] > 0 =>
            \E h \in world' : bodies'[h].sourceElement = n]_vars

\* a step of the engine: a body of the world is moved
SimulationStep ==
    \E h \in 1..Len(bodies) :
        h \in world /\ (bodies'[h].x # bodies[h].x \/ bodies'[h].y # bodies[h].y)

\* C12: the engine moves a body only when the walk is over (no addChildren
\* call is active, none awaits isSpecialEntity), and once the walk is over
\* no step of the walk follows.
C12_WalkBeforeStepping ==
    [][/\ SimulationStep => (pc = "running" /\ stack = <<>>)
       /\ pc = "running" => (pc' = "running" /\ stack' = <<>> /\ visited' = visited)]_vars

\* the engine has moved the body of an element whose parent the walk
\* descended into after isSpecialEntity resolved to false for it
C12_Witness ==
    /\ pc = "running"
    /\ \E h \in world :
         /\ bodies[h].sourceElement \in Nodes
         /\ parent[bodies[h].sourceElement] \in visited \ {Root}
         /\ bodies[h].velocity # <<0, 0>>

(***************************************************************************)
(* Concurrent resyncs.                                                     *)
(***************************************************************************)
\* the updateTexture calls of the bodies of element n awaiting their capture
InFlight(n) ==
    LET rs == {r \in BagToSet(resyncs) : bodies[r.body].sourceElement = n}
    IN  BagCardinality([r \in rs |-> resyncs[r]])

\* C13: for every element at most one updateTexture is awaiting its
\* capture at any time.
C13_OneResyncInFlight == \A n \in Nodes : InFlight(n) <= 1

\* C15: when an updateTexture resumes and no updateTexture of that element
\* is awaiting its capture any more, the texture of the body shows the
\* content the element has now.
C15_LatestTextureAfterBurst ==
    [][\A r \in BagToSet(resyncs) :
         (updateTextureResume(r) /\ r.body \in world
            /\ \A q \in BagToSet(resyncs') :
                 bodies[q.body].sourceElement # bodies[r.body].sourceElement)
         => bodies'[r.body].texture = content[bodies[r.body].sourceElement]]_vars

\* C16: when no updateTexture of a body is awaiting its capture, the
\* texture of the body is the image the updateTexture of that body that
\* resumed last captured.
C16_LastCompletedCaptureWins ==
    (/\ lastResync.body # Null
     /\ \A r \in BagToSet(resyncs) : r.body # lastResync.body)
    => bodies[lastResync.body].texture = lastResync.texture

\* two updateTexture of one body awaited their capture together and both
\* have resumed; the one that resumed last captured the earlier content, and
\* that is the texture of the body
C16_Witness ==
    /\ lastResync.body \in world
    /\ lastResync.overlapped
    /\ resyncs = EmptyBag
    /\ lastResync.texture = 1
    /\ content[bodies[lastResync.body].sourceElement] = 2
    /\ bodies[lastResync.body].texture = 1

\* C17: when an updateTexture resumes and the element's width or height
\* differs from the body's oldDimensions, a body is being created for the
\* element at the x and y the removed body has at that moment, also when
\* one of them is 0.
C17_ReplacementKeepsPosition ==
    [][\A r \in BagToSet(resyncs) :
         (updateTextureResume(r) /\ r.body \in world /\ DimensionsDiffer(r.body))
         => \E c \in BagToSet(creating') :
              /\ c.sourceElement = bodies[r.body].sourceElement
              /\ c.x = bodies[r.body].x
              /\ c.y = bodies[r.body].y]_vars

(***************************************************************************)
(* The gestures.                                                           *)
(***************************************************************************)
\* click() and focus() on element n, once each
Activation(n) == << <<"click", n>>, <<"focus", n>> >>

\* the "mouseup" that ended a gesture ran last: a mousedown on `body`, then
\* gesture.moves mousemoves, then that first mouseup
FirstMouseupOfGesture ==
    /\ forwarded.event = "mouseup"
    /\ gesture.down
    /\ gesture.ups = 1

\* C4: a mousedown on a body that has a source element, fewer than 5
\* mousemoves, then a mouseup: that mouseup calls click() and focus() once
\* each on the source element of the body of the mousedown, whatever
\* gestures came before.
C4_ClickForwardsOneActivation ==
    ( /\ FirstMouseupOfGesture
      /\ gesture.moves < ClickMoveThreshold
      /\ gesture.body # Null
      /\ bodies[gesture.body].sourceElement # Undefined )
    => /\ forwarded.calls = Activation(bodies[gesture.body].sourceElement)
       /\ forwarded.error = "none"

\* a click of 4 mousemoves on the body of an element, right after a gesture
\* that was a drag
C4_Witness ==
    /\ FirstMouseupOfGesture
    /\ gesture.afterDrag
    /\ gesture.moves = ClickMoveThreshold - 1
    /\ gesture.body # Null
    /\ bodies[gesture.body].sourceElement \in Nodes
    /\ forwarded.calls # <<>>

\* C5: a mousedown, 5 or more mousemoves, then a mouseup: that mouseup
\* calls nothing; and from the 5th mousemove of a gesture on,
\* mousedownNotDrag stays false until the next mousedown.
C5_DragForwardsNothing ==
    (gesture.down /\ gesture.moves >= ClickMoveThreshold)
    => /\ ~mousedownNotDrag
       /\ forwarded.event = "mouseup" => forwarded.calls = <<>>

\* a gesture of more than 5 mousemoves on the body of an element has ended
C5_Witness ==
    /\ FirstMouseupOfGesture
    /\ gesture.moves > ClickMoveThreshold
    /\ gesture.body # Null
    /\ bodies[gesture.body].sourceElement \in Nodes
    /\ forwarded.calls = <<>>

(***************************************************************************)
(* The entity set of the walk.                                             *)
(***************************************************************************)
SelectorMatched(n) ==
    \E i \in 1..Len(entitySelectors) : Matches(n, entitySelectors[i])

ChildSet(e) == {n \in Nodes : parent[n] = e}

\* the reference definition: the direct children a selector matches, the
\* direct children the predicate is true for, and the same rule applied to
\* each remaining child
ReferenceSelected(e) == {c \in ChildSet(e) : SelectorMatched(c) \/ predicate[c]}

RECURSIVE ReferenceWalk(_)
ReferenceWalk(e) ==
    ReferenceSelected(e) \cup
    UNION {ReferenceWalk(c) : c \in ChildSet(e) \ ReferenceSelected(e)}

\* minus the elements of zero width or height
ReferenceEntities ==
    {n \in ReferenceWalk(Root) : rect[n].width # 0 /\ rect[n].height # 0}

\* root children [button, div[span]], selectors [button], predicate
\* `children.length === 0`
ExampleScene ==
    /\ parent[1] = Root /\ parent[2] = Root /\ parent[3] = 2
    /\ \A n \in Nodes : n > 3 => parent[n] = Root
    /\ kind[1] = "button" /\ kind[2] = "div" /\ kind[3] = "div"
    /\ entitySelectors = <<"button">>
    /\ \A n \in 1..3 : predicate[n] = (ChildSet(n) = {})
    /\ \A n \in 1..3 : rect[n].width # 0 /\ rect[n].height # 0

\* C6: when the walk from the root is over, the elements addEntity was
\* called for are those of the reference definition; for the example scene
\* they are the button and the span, not the div.
C6_WalkEqualsReference ==
    pc = "running" =>
        /\ EntitySet = ReferenceEntities
        /\ ExampleScene => EntitySet \cap (1..3) = {1, 3}

\* the walk of the example scene is over
C6_Witness == pc = "running" /\ ExampleScene /\ EntitySet \cap (1..3) = {1, 3}

\* the elements whose addChildren call has returned
Returned == visited \ {stack[i].element : i \in 1..Len(stack)}

\* C7: a direct child of a visited element that matches a selector is
\* eligible whatever the predicate says of it: it is in eligibleChildren
\* while its parent is walked, addChildren is never called for it, and once
\* its parent's call has returned addEntity has been called for it exactly
\* when it has a size.
C7_SelectorPrecedence ==
    \A n \in Nodes : SelectorMatched(n) =>
        /\ n \notin visited
        /\ \A i \in 1..Len(stack) :
             stack[i].element = parent[n] => n \in Range(stack[i].eligibleChildren)
        /\ parent[n] \in Returned => (n \in EntitySet <=> ~IsZeroSize(n))

\* the walk is over; an element with a child of its own matches a selector,
\* the predicate is false for it, and it is an entity
C7_Witness ==
    /\ pc = "running"
    /\ \E n \in Nodes :
         /\ SelectorMatched(n) /\ ~predicate[n]
         /\ ChildSet(n) # {}
         /\ parent[n] \in visited
         /\ n \in EntitySet

C9_NoDuplicateEntity ==
    /\ \A n \in Nodes : entityCalls[n] <= 1
    /\ \A c \in BagToSet(creating) : creating[c] = 1

\* the walk is over; an element that matches both selectors is an entity,
\* and so is one that matches a selector and for which the predicate is true
C9_Witness ==
    /\ pc = "running"
    /\ Len(entitySelectors) = 2
    /\ \E n \in EntitySet :
         Matches(n, entitySelectors[1]) /\ Matches(n, entitySelectors[2])
    /\ \E n \in EntitySet : SelectorMatched(n) /\ predicate[n]

WallsOf(width, height) ==
    /\ \A h \in 1..4 : bodies[h].isStatic /\ h \in world
    /\ bodies[1].y = height /\ bodies[1].width = width /\ bodies[1].height = 1
    /\ bodies[2].y = 0 /\ bodies[2].width = width /\ bodies[2].height = 1
    /\ bodies[3].x = 0 /\ bodies[3].height = height /\ bodies[3].width = 1
    /\ bodies[4].x = width /\ bodies[4].height = height /\ bodies[4].width = 1

\* C18 as stated: for a root element of width W and height H the walls are
\* the floor at y = H spanning W, the ceiling at y = 0 spanning W, the left
\* wall at x = 0 spanning H and the right wall at x = W spanning H, each
\* static and 1 unit thick.
C18_WallsOfRootRect == WallsOf(rootRect.width, rootRect.height)

\* C18 as amended: the same for the width W, or 800 when the width of the
\* root element is 0, and the height H, or 600 when its height is 0.
C18_WallsOfRootRectOrDefault ==
    WallsOf(IF rootRect.width = 0 THEN 800 ELSE rootRect.width,
            IF rootRect.height = 0 THEN 600 ELSE rootRect.height)

\* the scene of a root element of width 0 and a height that is not 0 is
\* built
C18_Witness ==
    /\ pc = "running"
    /\ rootRect.width = 0 /\ rootRect.height > 0
    /\ bodies[4].x = DefaultWidth
    /\ bodies[1].y = rootRect.height

(***************************************************************************)
(* Failures.                                                               *)
(***************************************************************************)
\* the children of e that are entities when a child isSpecialEntity throws
\* for is skipped
SelectedSkipping(e) ==
    {c \in ChildSet(e) : SelectorMatched(c) \/ (c \notin throws /\ predicate[c])}

RECURSIVE WalkSkipping(_)
WalkSkipping(e) ==
    SelectedSkipping(e) \cup
    UNION {WalkSkipping(c) : c \in (ChildSet(e) \ SelectedSkipping(e)) \ throws}

\* C19: once no addChildren call is active, gravitify has gone on to
\* addMouseEvents and the loops, and addEntity has been called for the
\* elements the walk selects when the subtree of every element
\* isSpecialEntity throws for is skipped.
C19_PredicateFailureSkipsSubtree ==
    pc # "walking" =>
        /\ pc = "running"
        /\ EntitySet = {n \in WalkSkipping(Root) : ~IsZeroSize(n)}

\* C20: when image(sourceElement) rejects in a createBody, no body is made
\* and nothing else changes: the other createBody calls stay in flight, the
\* walk goes on where it is, and a scene that is running keeps running.
C20_CaptureFailureIsLocal ==
    [][\A c \in BagToSet(creating) :
         createBodyReject(c)
         => /\ bodies' = bodies /\ world' = world
            /\ creating' (+) SetToBag({c}) = creating
            /\ pc' = pc /\ stack' = stack /\ entityCalls' = entityCalls]_vars

\* the scene is running and no createBody is in flight: one of the
\* elements addEntity was called for has no body, made or being made, and
\* another has its body in the world, moved by the engine
C20_Witness ==
    /\ pc = "running"
    /\ creating = EmptyBag
    /\ \E n \in EntitySet : \A h \in 1..Len(bodies) : bodies[h].sourceElement # n
    /\ \E h \in world :
         bodies[h].sourceElement \in EntitySet /\ bodies[h].velocity # <<0, 0>>

(***************************************************************************)
(* The gestures, continued.                                                *)
(***************************************************************************)
\* C23: a "mouseup" that follows another "mouseup" with no "mousedown" in
\* between calls nothing.
C23_SecondMouseupForwardsNothing ==
    (forwarded.event = "mouseup" /\ gesture.ups >= 2) => forwarded.calls = <<>>

\* C24: whatever a "mouseup" calls, it calls on the source element of the
\* body the "mousedown" of the gesture found under the pointer; when that
\* "mousedown" found no body, or there was no "mousedown", it calls nothing.
C24_ActivationGoesToPressedBody ==
    forwarded.event = "mouseup" =>
        /\ gesture.body = Null =>
             (forwarded.calls = <<>> /\ forwarded.error = "none")
        /\ forwarded.calls # <<>> =>
             forwarded.calls = Activation(bodies[gesture.body].sourceElement)

\* a "mousedown" with no body under the pointer, fewer than 5 "mousemove",
\* then a "mouseup" that called nothing, while the bodies of two elements
\* are in the world
C24_Witness ==
    /\ FirstMouseupOfGesture
    /\ gesture.body = Null
    /\ gesture.moves < ClickMoveThreshold
    /\ mousedownNotDrag
    /\ forwarded.calls = <<>>
    /\ Cardinality({h \in world : bodies[h].sourceElement \in Nodes}) >= 2

(***************************************************************************)
(* The entities, continued.                                                *)
(***************************************************************************)
\* C22: when an updateTexture resumes, the element is afterwards
\* represented by its size of now: either the body in the world has
\* oldDimensions equal to the element's width and height, or a body is
\* being created with that width and height.
C22_ResyncTakesCurrentSize ==
    [][\A r \in BagToSet(resyncs) :
         (updateTextureResume(r) /\ r.body \in world)
         => LET n == bodies[r.body].sourceElement
            IN  \/ \E h \in world' :
                      /\ bodies'[h].sourceElement = n
                      /\ bodies'[h].oldDimensions.width = rect[n].width
                      /\ bodies'[h].oldDimensions.height = rect[n].height
                \/ \E c \in BagToSet(creating') :
                      /\ c.sourceElement = n
                      /\ c.sourceRect.width = rect[n].width
                      /\ c.sourceRect.height = rect[n].height]_vars

\* C27: the four walls are in the world at all times, as they were made.
C27_WallsUnchanged ==
    /\ 1..4 \subseteq world
    /\ SubSeq(bodies, 1, 4) = BoundaryBodies(rootRect.width, rootRect.height)

\* the engine has moved the body of an element, an updateTexture has
\* resumed for the body of an element, a createBody has been rejected
C27_Witness ==
    /\ pc = "running"
    /\ lastResync.body \in world
    /\ \E h \in world : bodies[h].y = 5
    /\ \E n \in EntitySet :
         /\ \A h \in 1..Len(bodies) : bodies[h].sourceElement # n
         /\ \A c \in BagToSet(creating) : c.sourceElement # n

C30_EntitySetIsAntichain ==
    /\ \A n \in EntitySet : \A m \in EntitySet : ~IsDescendant(n, m)
    /\ Root \notin shrunk
    /\ \A c \in BagToSet(creating) : c.sourceElement # Root
    /\ \A h \in 1..Len(bodies) : bodies[h].sourceElement # Root

\* the walk is over; an element the predicate is true for is an entity, and
\* below it is an element with a size that a selector matches and that is
\* not an entity
C30_Witness ==
    /\ pc = "running"
    /\ \E n \in EntitySet : \E m \in Nodes \ EntitySet :
         /\ predicate[n]
         /\ IsDescendant(m, n)
         /\ SelectorMatched(m)
         /\ ~IsZeroSize(m)

\* C25: in one walk isSpecialEntity is called at most once for an element,
\* and addChildren is called at most once for an element: a call for a
\* child is made only when none was made for it before.
C25_EachNodeVisitedOnce ==
    [][/\ \A n \in Nodes : asked'[n] <= 1
       /\ (pc' = "walking" /\ Len(stack') > Len(stack) /\ Len(stack) > 0)
           => stack'[Len(stack')].element \notin visited]_vars

\* the walk is over: isSpecialEntity was awaited for an element, addChildren
\* was called for it and, in that call, isSpecialEntity was awaited for a
\* child of it and addChildren called for that child
C25_Witness ==
    /\ pc = "running"
    /\ \E n \in visited \ {Root} : \E m \in visited \ {Root} :
         parent[m] = n /\ asked[n] = 1 /\ asked[m] = 1

(***************************************************************************)
(* The options.                                                            *)
(***************************************************************************)
\* what the caller gave for a field of PhysicsOptions
Supplied(f) == Chain(Chain(physicsOptions, f[1]), f[2])

\* `passed`, the value of the field in what the Physics World was called
\* with, is what the caller gave: undefined (the key is not there) when the
\* caller gave undefined or null, else the value given
PassedThrough(f, passed) ==
    IF Supplied(f).leaf \in {"undefined", "null"}
    THEN passed = Leaf("undefined")
    ELSE passed = Supplied(f)

\* C21: every field of PhysicsOptions.engine, .gravity and .body the caller
\* gave, 0 and false included, is in the options of Engine.create or of
\* Bodies.rectangle with the value given, and a field that is absent,
\* undefined or null, also because its group is, is not in them.
C21_OptionsPassedThrough ==
    /\ \A f \in {g \in Fields : g[1] = "engine"} :
         PassedThrough(f, Chain(Map(engineDefinition), f[2]))
    /\ \A f \in {g \in Fields : g[1] = "gravity"} :
         PassedThrough(f, Chain(Chain(Map(engineDefinition), "gravity"), f[2]))
    /\ \A f \in {g \in Fields : g[1] = "body"} :
         \A h \in 5..Len(bodies) :
            PassedThrough(f, Chain(Map(bodies[h].definition), f[2]))

\* C26: the body createBody adds for an element is at x = left + width / 2
\* and y = top of the element's rectangle relative to the root element's,
\* and has the width and height of that rectangle.
C26_FirstBodyAtRectangle ==
    [][Len(bodies') = Len(bodies) + 1
       => LET b == bodies'[Len(bodies')]
              n == b.sourceElement
          IN  /\ 2 * b.x = 2 * (rect[n].left - rootRect.left) + rect[n].width
              /\ b.y = rect[n].top - rootRect.top
              /\ b.width = rect[n].width
              /\ b.height = rect[n].height]_vars

\* C28: once addMouseEvents has been called, the stiffness and the damping
\* the caller gave in physicsOptions.mouse are those of the constraint
\* MouseConstraint.create was called with.
C28_MouseOptionsApplied ==
    pc = "running" =>
        \A f \in {g \in Fields : g[1] = "mouse"} :
            PassedThrough(f, Chain(constraintDefinition, f[2]))

(***************************************************************************)
(* Failures, continued.                                                    *)
(***************************************************************************)
\* C31: a "mousedown" on a body that has no source element, such as a wall,
\* fewer than 5 "mousemove", then a "mouseup": that "mouseup" calls nothing
\* and throws nothing.
C31_ClickOnWallIsIgnored ==
    ( /\ FirstMouseupOfGesture
      /\ gesture.moves < ClickMoveThreshold
      /\ gesture.body # Null
      /\ bodies[gesture.body].sourceElement = Undefined )
    => (forwarded.calls = <<>> /\ forwarded.error = "none")

\* C32: when image(sourceElement) rejects in an updateTexture, the body is
\* as it was before the call: the same body in the world, with the same
\* texture and the same oldDimensions, no createBody started; and
\* updateTexture is still registered on the element with the texture set, so
\* that the next change of the element starts a capture again.
C32_ResyncFailureLeavesEntity ==
    [][\A r \in BagToSet(resyncs) :
         updateTextureReject(r)
         => /\ bodies' = bodies /\ world' = world /\ creating' = creating
            /\ resyncs' (+) SetToBag({r}) = resyncs
            /\ r.body \in Listeners(bodies[r.body].sourceElement)'
            /\ bodies'[r.body].texture # Undefined]_vars

\* the updateTexture that ended last had its capture rejected, after the
\* content of the element had changed: its body is in the world, moved by
\* the engine, with the texture of the first capture
C32_Witness ==
    /\ lastResync.rejected # Null
    /\ lastResync.rejected \in world
    /\ LET h == lastResync.rejected
       IN  /\ bodies[h].texture # Undefined
           /\ bodies[h].texture < content[bodies[h].sourceElement]
           /\ bodies[h].velocity # <<0, 0>>

(***************************************************************************)
(* Termination of the build.                                               *)
(***************************************************************************)
\* the constraint of the mouse has been made: addMouseEvents was called
MouseEventsAdded == constraintDefinition = ConstraintDefinition(Leaf("undefined"))

\* C33: for every document, when isSpecialEntity throws for none of its
\* elements, the build ends: eventually no addChildren call is left,
\* addMouseEvents has been called and Runner.run and Render.run have been
\* called.
C33_BuildTerminates ==
    (throws = {}) => <>(stack = <<>> /\ MouseEventsAdded /\ RunnerStarted)

\* the build has ended after a walk that went two levels down, while a
\* capture of createBody has not resolved
C33_Witness ==
    /\ throws = {}
    /\ stack = <<>> /\ MouseEventsAdded /\ RunnerStarted
    /\ \E n \in visited : n # Root /\ parent[n] # Root
    /\ creating # EmptyBag

====
